---- MODULE Spec2Model ----
(***************************************************************************)
(* Street-lamp decision service: app.py (WeatherAPI + failsafe variant)    *)
(* and code.py (client-supplied weather variant).                          *)
(*                                                                         *)
(* Temperatures are integers in units of 1/(10*SubSteps) degree Celsius,   *)
(* a reported (rounded) temperature is in tenths of a degree.  Moments of  *)
(* the day are integers in ticks, TicksPerMinute ticks to the minute.      *)
(***************************************************************************)
EXTENDS Integers, Sequences, FiniteSets, TLC

VARIABLES
    pc,                \* "call" before the function under study runs, "done" after
    fn,                \* name of the function that produced ret
    model,             \* app.py module global `model`: None or a classifier
    all_inputs,        \* dict handed to determine_lamp_action
    health_status,     \* dict returned by read_health_sensor
    current_temp,      \* raw value of random.uniform(30.0, 65.0)
    today,             \* datetime.now(), as ticks since local midnight
    sunrise_time_str,  \* astro['sunrise']
    sunset_time_str,   \* astro['sunset']
    client_data,       \* request.get_json()
    provider,          \* what requests.get(WEATHER_URL) yields
    ret,               \* value returned (or exception raised) by the function
    calls              \* sequence of stages / collaborator calls, in order

vars == <<pc, fn, model, all_inputs, health_status, current_temp, today,
          sunrise_time_str, sunset_time_str, client_data, provider, ret, calls>>

\* Python's None where a dict or an object is expected
None == [None |-> TRUE]
IsNone(x) == DOMAIN x = {"None"}

\* placeholder of a variable the specification at hand does not use
Unused == "-"

----------------------------------------------------------------------------
(* Bounds of the model *)

\* sensor readings are modelled in SubSteps steps per tenth of a degree
SubSteps == 10
\* the oracle may answer any value in 0..MaxVerdict
MaxVerdict == 2
\* sub-minute resolution of the clock
TicksPerMinute == 2
\* clock samples are taken within NowWindow ticks of each boundary
NowWindow == 2

----------------------------------------------------------------------------
(* Python dict helpers *)

Get(d, k, default) == IF k \in DOMAIN d THEN d[k] ELSE default

\* {**a, **b}
Merge(a, b) ==
    [k \in (DOMAIN a) \cup (DOMAIN b) |-> IF k \in DOMAIN b THEN b[k] ELSE a[k]]

----------------------------------------------------------------------------
(* Configuration *)

FEATURES == {"humidity", "cloudcover", "visibility", "uvindex",
             "day_of_year", "temp", "precip"}

\* 55.0 degrees in sensor units
MAX_SAFE_TEMP_C == 55 * 10 * SubSteps
SensorLow  == 30 * 10 * SubSteps
SensorHigh == 65 * 10 * SubSteps

OFF_DAYTIME                 == "OFF (Daytime)"
MAX_OUTPUT_FAILSAFE         == "MAX OUTPUT (System Failsafe: Overheat)"
MAX_OUTPUT_WEATHER_OVERRIDE == "MAX OUTPUT (Safety Override: Rain/Fog)"
DIMMER_MOTION_DETECTED      == "DIMMER OUTPUT (Motion Detected)"
OFF_NO_MOTION               == "OFF (No Motion Detected)"

LampActions == {OFF_DAYTIME, MAX_OUTPUT_FAILSAFE, MAX_OUTPUT_WEATHER_OVERRIDE,
                DIMMER_MOTION_DETECTED, OFF_NO_MOTION}

OracleValues == 0..MaxVerdict

----------------------------------------------------------------------------
(* Health monitor: app.py read_health_sensor *)

\* round(x, 1): nearest tenth, ties to the even tenth; result in tenths
Round1(x) ==
    LET q == x \div SubSteps
        r == x % SubSteps
    IN  IF 2 * r < SubSteps THEN q
        ELSE IF 2 * r > SubSteps THEN q + 1
        ELSE IF q % 2 = 0 THEN q ELSE q + 1

\* current_temp_c and max_safe_temp_c are reported in tenths of a degree
HealthOf(temp) ==
    [current_temp_c  |-> Round1(temp),
     max_safe_temp_c |-> MAX_SAFE_TEMP_C \div SubSteps,
     is_overheated   |-> temp > MAX_SAFE_TEMP_C]

\* every value random.uniform(30.0, 65.0) can take, at the model's resolution
SensorReadings == SensorLow..SensorHigh

----------------------------------------------------------------------------
(* Decision engine: app.py determine_lamp_action *)

Return(v, cs) == [kind |-> "return", value |-> v, calls |-> cs]
Raise(e, cs)  == [kind |-> "raise",  value |-> e, calls |-> cs]

\* stage 1 fires: not all_inputs.get('is_night_time', False)
TimeGateDefaultNight(inputs) == ~ Get(inputs, "is_night_time", TRUE)
TimeGate(inputs) == ~ Get(inputs, "is_night_time", FALSE)

\* stage 2 fires: health_status['is_overheated']
FailsafeFromReportedTemp(health) == health.current_temp_c > health.max_safe_temp_c
Failsafe(health) == health.is_overheated

\* pd.DataFrame([all_inputs])[FEATURES]; a missing column is a KeyError
HasFeatures(inputs) == FEATURES \subseteq DOMAIN inputs
SelectFeatures(inputs) == [f \in FEATURES |-> inputs[f]]

\* model_clf.predict(X_weather)[0]; a classifier is the object [predict |-> f]
Predict(model_clf, X) == model_clf.predict[X]

\* stage 3 fires: max_light_required == 1
WeatherOverrideOnZero(max_light_required) == max_light_required = 0
WeatherOverride(max_light_required) == max_light_required = 1

\* stage 4
MotionStageSwapped(inputs, cs) ==
    IF "is_motion_detected" \notin DOMAIN inputs
    THEN Raise("KeyError", cs)
    ELSE IF inputs["is_motion_detected"]
         THEN Return(OFF_NO_MOTION, cs)
         ELSE Return(DIMMER_MOTION_DETECTED, cs)
MotionStage(inputs, cs) ==
    IF "is_motion_detected" \notin DOMAIN inputs
    THEN Raise("KeyError", cs)
    ELSE IF inputs["is_motion_detected"]
         THEN Return(DIMMER_MOTION_DETECTED, cs)
         ELSE Return(OFF_NO_MOTION, cs)

\* the oracle is consulted before the hardware failsafe
determine_lamp_action_OracleFirst(inputs, model_clf, health) ==
    IF TimeGate(inputs)
    THEN Return(OFF_DAYTIME, <<"time">>)
    ELSE IF ~ HasFeatures(inputs)
    THEN Raise("KeyError", <<"time", "select">>)
    ELSE LET max_light_required == Predict(model_clf, SelectFeatures(inputs))
         IN  IF Failsafe(health)
             THEN Return(MAX_OUTPUT_FAILSAFE, <<"time", "select", "predict", "failsafe">>)
             ELSE IF WeatherOverride(max_light_required)
             THEN Return(MAX_OUTPUT_WEATHER_OVERRIDE,
                         <<"time", "select", "predict", "failsafe">>)
             ELSE MotionStage(inputs, <<"time", "select", "predict", "failsafe", "motion">>)

\* calls lists the stages evaluated, in order: "time", "failsafe",
\* "select" (feature selection), "predict" (the oracle call), "motion"
determine_lamp_action(inputs, model_clf, health) ==
    IF TimeGate(inputs)
    THEN Return(OFF_DAYTIME, <<"time">>)
    ELSE IF Failsafe(health)
    THEN Return(MAX_OUTPUT_FAILSAFE, <<"time", "failsafe">>)
    ELSE IF ~ HasFeatures(inputs)
    THEN Raise("KeyError", <<"time", "failsafe", "select">>)
    ELSE LET max_light_required == Predict(model_clf, SelectFeatures(inputs))
         IN  IF WeatherOverride(max_light_required)
             THEN Return(MAX_OUTPUT_WEATHER_OVERRIDE,
                         <<"time", "failsafe", "select", "predict">>)
             ELSE MotionStage(inputs, <<"time", "failsafe", "select", "predict", "motion">>)

----------------------------------------------------------------------------
(* code.py: predict_max_light_required and street_lamp_control_system *)

\* int(model_clf.predict(DataFrame([weather_data], columns=FEATURES))[0])
predict_max_light_required(model_clf, weather_data) ==
    Predict(model_clf, SelectFeatures(weather_data))

street_lamp_control_system(model_clf, is_night_time, is_motion_detected, real_time_weather) ==
    IF ~ is_night_time
    THEN Return(OFF_DAYTIME, <<"time">>)
    ELSE IF predict_max_light_required(model_clf, real_time_weather) = 1
    THEN Return(MAX_OUTPUT_WEATHER_OVERRIDE, <<"time", "predict">>)
    ELSE IF is_motion_detected
         THEN Return(DIMMER_MOTION_DETECTED, <<"time", "predict", "motion">>)
         ELSE Return(OFF_NO_MOTION, <<"time", "predict", "motion">>)

----------------------------------------------------------------------------
(* Weather adapter: app.py is_currently_night *)

TicksPerHour == 60 * TicksPerMinute
DayTicks     == 24 * TicksPerHour

\* A time-of-day string "hh:mm ap" is the record [hh, mm, ap].
\* datetime.strptime(..., '%I:%M %p') raises ValueError unless hh is 1..12,
\* mm is 0..59 and ap is AM or PM.
ParseOK(s) == s.hh \in 1..12 /\ s.mm \in 0..59 /\ s.ap \in {"AM", "PM"}

\* the parsed moment on today's date, as ticks since midnight
ParseTime(s) ==
    (((s.hh % 12) + (IF s.ap = "PM" THEN 12 ELSE 0)) * 60 + s.mm) * TicksPerMinute

Hour(t) == t \div TicksPerHour

\* the sunset boundary itself is excluded from the night
is_currently_night_SunsetExclusive(now, sunrise_str, sunset_str) ==
    IF ~ (ParseOK(sunrise_str) /\ ParseOK(sunset_str))
    THEN Hour(now) < 7 \/ Hour(now) >= 19
    ELSE now < ParseTime(sunrise_str) \/ now > ParseTime(sunset_str)

is_currently_night(now, sunrise_str, sunset_str) ==
    IF ~ (ParseOK(sunrise_str) /\ ParseOK(sunset_str))
    THEN Hour(now) < 7 \/ Hour(now) >= 19
    ELSE now < ParseTime(sunrise_str) \/ now >= ParseTime(sunset_str)

----------------------------------------------------------------------------
(* Weather adapter: app.py fetch_real_time_weather *)

Min(a, b) == IF a <= b THEN a ELSE b

\* last_updated_epoch is counted in seconds from the start of the local year
calculate_day_of_year(epoch) == epoch \div 86400 + 1

\* keys of data['current'] in the order the code reads them
CurrentKeys == <<"last_updated_epoch", "temp_c", "humidity", "precip_mm",
                 "cloud", "vis_km", "uv">>

NoKey == ""

\* the first key whose lookup raises KeyError, or NoKey
FirstMissing(data) ==
    IF "current" \notin DOMAIN data THEN "current"
    ELSE IF "forecast" \notin DOMAIN data THEN "forecast"
    ELSE IF "forecastday" \notin DOMAIN data["forecast"] THEN "forecastday"
    ELSE IF Len(data["forecast"]["forecastday"]) = 0 THEN "IndexError"
    ELSE IF "astro" \notin DOMAIN data["forecast"]["forecastday"][1] THEN "astro"
    ELSE LET current == data["current"]
             astro   == data["forecast"]["forecastday"][1]["astro"]
         IN  IF "last_updated_epoch" \notin DOMAIN current THEN "last_updated_epoch"
             ELSE IF "sunrise" \notin DOMAIN astro THEN "sunrise"
             ELSE IF "sunset" \notin DOMAIN astro THEN "sunset"
             ELSE LET miss == {i \in 2..Len(CurrentKeys) :
                                  CurrentKeys[i] \notin DOMAIN current}
                  IN  IF miss = {} THEN NoKey
                      ELSE CurrentKeys[CHOOSE i \in miss : \A j \in miss : i <= j]

\* step 3 of fetch_real_time_weather
MapFeatures(current, is_night) ==
    [temp          |-> current["temp_c"],
     humidity      |-> current["humidity"],
     precip        |-> current["precip_mm"],
     cloudcover    |-> current["cloud"],
     visibility    |-> Min(current["vis_km"], 10),
     uvindex       |-> current["uv"],
     day_of_year   |-> calculate_day_of_year(current["last_updated_epoch"]),
     is_night_time |-> is_night]

\* prov is [exc |-> name] when requests.get / raise_for_status raises,
\* [json |-> data] when the provider answers with a JSON document
fetch_real_time_weather(prov, now) ==
    IF "exc" \in DOMAIN prov
    THEN Return([status |-> "error",
                 message |-> <<"Could not connect to WeatherAPI", prov.exc>>], <<>>)
    ELSE LET data == prov.json
             miss == FirstMissing(data)
         IN  IF miss = "IndexError"
             THEN Raise("IndexError", <<>>)
             ELSE IF miss # NoKey
             THEN Return([status |-> "error",
                          message |-> <<"Failed to parse weather data structure: Missing key",
                                        miss>>], <<>>)
             ELSE LET astro == data["forecast"]["forecastday"][1]["astro"]
                      is_night == is_currently_night(now, astro["sunrise"], astro["sunset"])
                  IN  Return([status |-> "success",
                              data |-> MapFeatures(data["current"], is_night),
                              astronomy |-> [sunrise |-> astro["sunrise"],
                                             sunset  |-> astro["sunset"]]], <<>>)

----------------------------------------------------------------------------
(* Request handler: app.py control_lamp *)

\* (jsonify(body), code); a bare jsonify(body) is code 200
Resp(code, body, cs) == [http |-> code, body |-> body, calls |-> cs]

\* the except Exception clause at the end of control_lamp
InternalError(e, cs) ==
    Resp(500, [status |-> "error",
               message |-> <<"An internal server error occurred", e>>], cs)

\* a failed fetch answered with a default lamp action instead of the error
WeatherErrorResponse_Fallback(weather_result, cs) ==
    Resp(200, [status |-> "success", lamp_action |-> OFF_NO_MOTION], cs)
\* return jsonify(weather_result), 500
WeatherErrorResponse(weather_result, cs) == Resp(500, weather_result, cs)

\* temp is the value random.uniform yields if read_health_sensor is reached
control_lamp(mdl, body, prov, now, temp) ==
    IF IsNone(mdl)
    THEN Resp(500, [status |-> "error", message |-> "AI Model not loaded."], <<>>)
    ELSE IF IsNone(body)
    THEN InternalError("AttributeError", <<>>)
    ELSE
    LET is_motion_detected == Get(body, "is_motion_detected", FALSE)
        fetched == fetch_real_time_weather(prov, now)
        cs1 == <<"fetch_real_time_weather">>
    IN  IF fetched.kind = "raise"
        THEN InternalError(fetched.value, cs1)
        ELSE IF fetched.value.status = "error"
        THEN WeatherErrorResponse(fetched.value, cs1)
        ELSE
        LET weather_features == fetched.value.data
            astronomy == fetched.value.astronomy
            health == HealthOf(temp)
            cs2 == Append(cs1, "read_health_sensor")
            inputs == Merge(weather_features,
                            [is_motion_detected |-> is_motion_detected])
            decided == determine_lamp_action(inputs, mdl, health)
            cs3 == cs2 \o decided.calls
        IN  IF decided.kind = "raise"
            THEN InternalError(decided.value, cs3)
            ELSE Resp(200,
                      [status |-> "success",
                       lamp_action |-> decided.value,
                       system_health |-> health,
                       weather_data_for_chart |-> inputs,
                       inputs_used |->
                           [is_night_time |-> Get(inputs, "is_night_time", FALSE),
                            is_motion_detected |-> is_motion_detected,
                            location |-> "Kuala Lumpur",
                            sunrise |-> astronomy.sunrise,
                            sunset  |-> astronomy.sunset]],
                      cs3)

----------------------------------------------------------------------------
(* Request handler: code.py control_lamp_endpoint *)

ClientError(e) ==
    Resp(400, [status |-> "error", message |-> <<"An error occurred", e>>], <<>>)

control_lamp_endpoint(model_clf, data) ==
    IF IsNone(data) THEN ClientError("TypeError")
    ELSE IF "is_night_time" \notin DOMAIN data THEN ClientError("is_night_time")
    ELSE IF "is_motion_detected" \notin DOMAIN data THEN ClientError("is_motion_detected")
    ELSE IF "weather_data" \notin DOMAIN data THEN ClientError("weather_data")
    ELSE
    LET weather == data["weather_data"]
        lamp == street_lamp_control_system(model_clf, data["is_night_time"],
                                           data["is_motion_detected"], weather)
    IN  Resp(200,
             [status |-> "success",
              lamp_action |-> lamp.value,
              weather_prediction |->
                  IF predict_max_light_required(model_clf, weather) = 1
                  THEN "Max Light" ELSE "Dimmer/Off",
              message |-> "Street lamp action determined successfully."],
             Append(lamp.calls, "predict"))

----------------------------------------------------------------------------
(* Input samples *)

Restrict(d, K) == [k \in K |-> d[k]]

\* two provider snapshots: a clear night and a foggy, rainy one
CurrentClear ==
    [last_updated_epoch |-> 299 * 86400 + 3600, temp_c |-> 26, humidity |-> 60,
     precip_mm |-> 0, cloud |-> 20, vis_km |-> 16, uv |-> 0]
CurrentFog ==
    [last_updated_epoch |-> 299 * 86400 + 3600, temp_c |-> 24, humidity |-> 95,
     precip_mm |-> 2, cloud |-> 90, vis_km |-> 2, uv |-> 0]
CurrentSamples == {CurrentClear, CurrentFog}

FeatureVectors == {Restrict(MapFeatures(c, TRUE), FEATURES) : c \in CurrentSamples}

\* a classifier answers every feature vector with some value of OracleValues
Classifiers == {[predict |-> f] : f \in [FeatureVectors -> OracleValues]}

\* dicts handed to determine_lamp_action: at most "precip", "is_night_time"
\* and "is_motion_detected" are absent
AllKeys == FEATURES \cup {"is_night_time", "is_motion_detected"}
FullInputs ==
    {Merge(v, [is_night_time |-> n, is_motion_detected |-> m]) :
        v \in FeatureVectors, n \in BOOLEAN, m \in BOOLEAN}
DecisionInputs ==
    {Restrict(d, K) : d \in FullInputs,
                      K \in {K \in SUBSET AllKeys : FEATURES \ {"precip"} \subseteq K}}

\* raw sensor readings used where the reading is only an input to the decision
HealthSamples == {SensorLow, MAX_SAFE_TEMP_C, MAX_SAFE_TEMP_C + 1, SensorHigh}

\* sunrise / sunset strings; hour 0 does not parse with %I
TimeStrings == [hh : {0, 6, 7, 12}, mm : {0, 15}, ap : {"AM", "PM"}]

Boundaries(sunrise_str, sunset_str) ==
    {7 * TicksPerHour, 19 * TicksPerHour}
    \cup (IF ParseOK(sunrise_str) THEN {ParseTime(sunrise_str)} ELSE {})
    \cup (IF ParseOK(sunset_str) THEN {ParseTime(sunset_str)} ELSE {})

\* moments of the day within NowWindow ticks of a boundary
ClockSamples(sunrise_str, sunset_str) ==
    UNION {((b - NowWindow)..(b + NowWindow)) \cap (0..(DayTicks - 1)) :
              b \in Boundaries(sunrise_str, sunset_str)}

\* provider answers
AstroSamples ==
    {[sunrise |-> [hh |-> 7, mm |-> 0, ap |-> "AM"],
      sunset  |-> [hh |-> 7, mm |-> 15, ap |-> "PM"]],
     [sunrise |-> [hh |-> 0, mm |-> 0, ap |-> "AM"],
      sunset  |-> [hh |-> 7, mm |-> 15, ap |-> "PM"]]}

GoodData(c, a) == [current |-> c, forecast |-> [forecastday |-> <<[astro |-> a]>>]]

Drop(d, k) == Restrict(d, DOMAIN d \ {k})

BadData ==
    LET a == CHOOSE x \in AstroSamples : ParseOK(x.sunrise)
        g == GoodData(CurrentClear, a)
    IN  {Drop(g, "current"),
         Drop(g, "forecast"),
         [current |-> CurrentClear, forecast |-> [forecastday |-> <<>>]],
         GoodData(CurrentClear, Drop(a, "sunset")),
         GoodData(Drop(CurrentClear, "vis_km"), a)}

GoodProviders == {[json |-> GoodData(c, a)] : c \in CurrentSamples, a \in AstroSamples}
FailedProviders ==
    {[exc |-> e] : e \in {"ConnectionError", "Timeout", "HTTPError"}}
    \cup {[json |-> d] : d \in BadData}
Providers == GoodProviders \cup FailedProviders

HandlerClock == UNION {ClockSamples(a.sunrise, a.sunset) : a \in AstroSamples}

\* JSON bodies: null, or an object with any subset of the three known keys
BodyKeys == {"is_night_time", "is_motion_detected", "weather_data"}
FullBodies ==
    [is_night_time : BOOLEAN, is_motion_detected : BOOLEAN, weather_data : FeatureVectors]
ClientBodies == {None} \cup {Restrict(b, K) : b \in FullBodies, K \in SUBSET BodyKeys}

Models == {None} \cup Classifiers

----------------------------------------------------------------------------
(* Specification of the decision functions called directly *)

InitDecision ==
    /\ pc = "call"
    /\ fn = Unused
    /\ model \in Classifiers
    /\ all_inputs \in DecisionInputs
    /\ health_status \in {HealthOf(t) : t \in HealthSamples}
    /\ current_temp = Unused
    /\ today = Unused
    /\ sunrise_time_str = Unused
    /\ sunset_time_str = Unused
    /\ client_data = Unused
    /\ provider = Unused
    /\ ret = Unused
    /\ calls = <<>>

\* app.py determine_lamp_action(all_inputs, model, health_status)
DetermineLampAction ==
    /\ pc = "call"
    /\ LET r == determine_lamp_action(all_inputs, model, health_status)
       IN  /\ ret' = [kind |-> r.kind, value |-> r.value]
           /\ calls' = r.calls
    /\ fn' = "determine_lamp_action"
    /\ pc' = "done"
    /\ UNCHANGED <<model, all_inputs, health_status, current_temp, today,
                   sunrise_time_str, sunset_time_str, client_data, provider>>

\* code.py street_lamp_control_system on the same night flag, motion flag
\* and weather dict; called with all three arguments present
StreetLampControlSystem ==
    /\ pc = "call"
    /\ AllKeys \subseteq DOMAIN all_inputs
    /\ LET r == street_lamp_control_system(model, all_inputs["is_night_time"],
                                           all_inputs["is_motion_detected"],
                                           Restrict(all_inputs, FEATURES))
       IN  /\ ret' = [kind |-> r.kind, value |-> r.value]
           /\ calls' = r.calls
    /\ fn' = "street_lamp_control_system"
    /\ pc' = "done"
    /\ UNCHANGED <<model, all_inputs, health_status, current_temp, today,
                   sunrise_time_str, sunset_time_str, client_data, provider>>

NextDecision == DetermineLampAction \/ StreetLampControlSystem

SpecDecision == InitDecision /\ [][NextDecision]_vars

----------------------------------------------------------------------------
(* Specification of the health monitor *)

InitHealth ==
    /\ pc = "call"
    /\ fn = Unused
    /\ model = Unused
    /\ all_inputs = Unused
    /\ health_status = Unused
    /\ current_temp = Unused
    /\ today = Unused
    /\ sunrise_time_str = Unused
    /\ sunset_time_str = Unused
    /\ client_data = Unused
    /\ provider = Unused
    /\ ret = Unused
    /\ calls = <<>>

\* app.py read_health_sensor()
ReadHealthSensor ==
    /\ pc = "call"
    /\ \E temp \in SensorReadings :
          /\ current_temp' = temp
          /\ health_status' = HealthOf(temp)
    /\ fn' = "read_health_sensor"
    /\ pc' = "done"
    /\ UNCHANGED <<model, all_inputs, today, sunrise_time_str, sunset_time_str,
                   client_data, provider, ret, calls>>

NextHealth == ReadHealthSensor

SpecHealth == InitHealth /\ [][NextHealth]_vars

----------------------------------------------------------------------------
(* Specification of the night determination *)

InitNight ==
    /\ pc = "call"
    /\ fn = Unused
    /\ model = Unused
    /\ all_inputs = Unused
    /\ health_status = Unused
    /\ current_temp = Unused
    /\ sunrise_time_str \in TimeStrings
    /\ sunset_time_str \in TimeStrings
    /\ today \in ClockSamples(sunrise_time_str, sunset_time_str)
    /\ client_data = Unused
    /\ provider = Unused
    /\ ret = Unused
    /\ calls = <<>>

\* app.py is_currently_night(sunrise_time_str, sunset_time_str)
IsCurrentlyNight ==
    /\ pc = "call"
    /\ ret' = [kind |-> "return",
               value |-> is_currently_night(today, sunrise_time_str, sunset_time_str)]
    /\ fn' = "is_currently_night"
    /\ pc' = "done"
    /\ UNCHANGED <<model, all_inputs, health_status, current_temp, today,
                   sunrise_time_str, sunset_time_str, client_data, provider, calls>>

NextNight == IsCurrentlyNight

SpecNight == InitNight /\ [][NextNight]_vars

----------------------------------------------------------------------------
(* Specification of the request handlers *)

InitHandler ==
    /\ pc = "call"
    /\ fn = Unused
    /\ model \in Models
    /\ all_inputs = Unused
    /\ health_status = Unused
    /\ current_temp = Unused
    /\ today \in HandlerClock
    /\ sunrise_time_str = Unused
    /\ sunset_time_str = Unused
    /\ client_data \in ClientBodies
    /\ provider \in Providers
    /\ ret = Unused
    /\ calls = <<>>

\* app.py POST /api/control_lamp
ControlLamp ==
    /\ pc = "call"
    /\ \E temp \in HealthSamples :
          LET r == control_lamp(model, client_data, provider, today, temp)
          IN  /\ ret' = [http |-> r.http, body |-> r.body]
              /\ calls' = r.calls
    /\ fn' = "control_lamp"
    /\ pc' = "done"
    /\ UNCHANGED <<model, all_inputs, health_status, current_temp, today,
                   sunrise_time_str, sunset_time_str, client_data, provider>>

\* code.py POST /api/control_lamp; the process exits at start-up without a model
ControlLampEndpoint ==
    /\ pc = "call"
    /\ ~ IsNone(model)
    /\ LET r == control_lamp_endpoint(model, client_data)
       IN  /\ ret' = [http |-> r.http, body |-> r.body]
           /\ calls' = r.calls
    /\ fn' = "control_lamp_endpoint"
    /\ pc' = "done"
    /\ UNCHANGED <<model, all_inputs, health_status, current_temp, today,
                   sunrise_time_str, sunset_time_str, client_data, provider>>

NextHandler == ControlLamp \/ ControlLampEndpoint

SpecHandler == InitHandler /\ [][NextHandler]_vars

----------------------------------------------------------------------------
(* Properties of determine_lamp_action and street_lamp_control_system,     *)
(* checked under SpecDecision                                              *)

Decided == pc = "done" /\ fn = "determine_lamp_action"

IsNight == Get(all_inputs, "is_night_time", FALSE)

\* the oracle's answer to the features of all_inputs
Verdict == model.predict[Restrict(all_inputs, FEATURES)]

\* C1: failsafe dominance.  Whenever determine_lamp_action is given
\* is_night_time = true and an overheated health status, it returns
\* MAX_OUTPUT_FAILSAFE, whatever the oracle would answer and whatever the
\* motion flag is.
C1_FailsafeDominance ==
    (Decided /\ IsNight /\ health_status.is_overheated)
        => ret = [kind |-> "return", value |-> MAX_OUTPUT_FAILSAFE]

\* night, overheated, the oracle would answer 0 and there is no motion
C1_Witness ==
    /\ Decided /\ IsNight /\ health_status.is_overheated
    /\ HasFeatures(all_inputs) /\ Verdict = 0
    /\ "is_motion_detected" \in DOMAIN all_inputs
    /\ ~ all_inputs["is_motion_detected"]
    /\ ret.value = MAX_OUTPUT_FAILSAFE

\* C2: daytime dominance.  Whenever is_night_time is false, or the key is
\* absent from the inputs of determine_lamp_action, the action is OFF_DAYTIME,
\* whatever the health status, the oracle and the motion flag are; the same
\* holds of street_lamp_control_system.
C2_DaytimeDominance ==
    /\ (Decided /\ ~ IsNight)
           => ret = [kind |-> "return", value |-> OFF_DAYTIME]
    /\ (pc = "done" /\ fn = "street_lamp_control_system"
           /\ ~ all_inputs["is_night_time"])
           => ret = [kind |-> "return", value |-> OFF_DAYTIME]

\* key absent, overheated, the oracle would answer 1 and motion is detected
C2_Witness ==
    /\ Decided
    /\ "is_night_time" \notin DOMAIN all_inputs
    /\ health_status.is_overheated
    /\ HasFeatures(all_inputs) /\ Verdict = 1
    /\ "is_motion_detected" \in DOMAIN all_inputs
    /\ all_inputs["is_motion_detected"]
    /\ ret.value = OFF_DAYTIME

\* C3: weather override.  At night, not overheated, when the oracle answers 1
\* the action is MAX_OUTPUT_WEATHER_OVERRIDE, with or without motion.
C3_WeatherOverride ==
    (Decided /\ IsNight /\ ~ health_status.is_overheated
        /\ HasFeatures(all_inputs) /\ Verdict = 1)
        => ret = [kind |-> "return", value |-> MAX_OUTPUT_WEATHER_OVERRIDE]

C3_Witness ==
    /\ Decided /\ IsNight /\ ~ health_status.is_overheated
    /\ HasFeatures(all_inputs) /\ Verdict = 1
    /\ "is_motion_detected" \in DOMAIN all_inputs
    /\ ~ all_inputs["is_motion_detected"]
    /\ calls = <<"time", "failsafe", "select", "predict">>
    /\ ret.value = MAX_OUTPUT_WEATHER_OVERRIDE

\* C4: motion efficiency.  At night, not overheated, when the oracle answers 0
\* the action is DIMMER_MOTION_DETECTED if is_motion_detected is true and
\* OFF_NO_MOTION if it is false.
C4_MotionEfficiency ==
    (Decided /\ IsNight /\ ~ health_status.is_overheated
        /\ HasFeatures(all_inputs) /\ Verdict = 0
        /\ "is_motion_detected" \in DOMAIN all_inputs)
        => /\ ret.kind = "return"
           /\ ret.value \in {DIMMER_MOTION_DETECTED, OFF_NO_MOTION}
           /\ ret.value = DIMMER_MOTION_DETECTED <=> all_inputs["is_motion_detected"]

C4_Witness ==
    /\ Decided /\ IsNight /\ ~ health_status.is_overheated
    /\ HasFeatures(all_inputs) /\ Verdict = 0
    /\ "is_motion_detected" \in DOMAIN all_inputs
    /\ all_inputs["is_motion_detected"]
    /\ ret.value = DIMMER_MOTION_DETECTED

\* C6: an oracle answer outside {0, 1} at the weather stage ends in an
\* OracleContractError; no lamp action is returned and the motion stage is
\* not entered.
C6_OracleContract ==
    (Decided /\ IsNight /\ ~ health_status.is_overheated
        /\ HasFeatures(all_inputs) /\ Verdict \notin {0, 1}
        /\ "is_motion_detected" \in DOMAIN all_inputs)
        => /\ ret = [kind |-> "raise", value |-> "OracleContractError"]
           /\ \A i \in 1..Len(calls) : calls[i] # "motion"

StageOrder == <<"time", "failsafe", "select", "predict", "motion">>

IsPrefix(s, t) == Len(s) <= Len(t) /\ \A i \in 1..Len(s) : s[i] = t[i]

\* C10: stage ordering and short-circuit.  determine_lamp_action evaluates
\* its stages in the order time gate, hardware failsafe, oracle, motion; the
\* oracle is called at most once, and only for a night input that is not
\* overheated.
C10_StageOrder ==
    Decided =>
        /\ IsPrefix(calls, StageOrder)
        /\ Cardinality({i \in 1..Len(calls) : calls[i] = "predict"}) <= 1
        /\ (\E i \in 1..Len(calls) : calls[i] = "predict")
               => (IsNight /\ ~ health_status.is_overheated)

\* all four stages ran, the oracle exactly once
C10_Witness ==
    /\ Decided
    /\ calls = StageOrder
    /\ IsNight /\ ~ health_status.is_overheated
    /\ ret.kind = "return"

----------------------------------------------------------------------------
(* Property of read_health_sensor, checked under SpecHealth *)

\* C7: every status returned by read_health_sensor has is_overheated true
\* exactly when its reported current_temp_c is strictly greater than its
\* max_safe_temp_c; a status reporting exactly 55.0 is not overheated.
C7_OverheatIffReported ==
    (pc = "done" /\ fn = "read_health_sensor")
        => (health_status.is_overheated
               <=> health_status.current_temp_c > health_status.max_safe_temp_c)

----------------------------------------------------------------------------
(* Property of is_currently_night, checked under SpecNight *)

\* hour of the day, 0..23, of a 12-hour clock reading
Hour24(s) ==
    IF s.ap = "AM" THEN (IF s.hh = 12 THEN 0 ELSE s.hh)
                   ELSE (IF s.hh = 12 THEN 12 ELSE s.hh + 12)

Moment(s) == (Hour24(s) * 60 + s.mm) * TicksPerMinute

----------------------------------------------------------------------------
(* Properties of control_lamp, checked under SpecHandler *)

Handled == pc = "done" /\ fn = "control_lamp"

Called(name) == \E i \in 1..Len(calls) : calls[i] = name

\* C5: a request whose JSON body lacks is_motion_detected is answered with
\* status "error" and HTTP 400, and the oracle is not called (stated for a
\* loaded model and a provider that answers with a complete document, so
\* that nothing else fails the request).
C5_MissingMotionIs400 ==
    (Handled /\ ~ IsNone(model) /\ ~ IsNone(client_data)
        /\ "is_motion_detected" \notin DOMAIN client_data
        /\ "json" \in DOMAIN provider /\ FirstMissing(provider.json) = NoKey)
        => /\ ret.http = 400
           /\ ret.body.status = "error"
           /\ ~ Called("predict")

\* the provider raised, or its document lacks a key the adapter reads
FetchFails ==
    \/ "exc" \in DOMAIN provider
    \/ FirstMissing(provider.json) \notin {NoKey, "IndexError"}

\* C9: when the weather fetch fails, the answer is status "error" with HTTP
\* 500 and no lamp_action, and neither the health sensor nor the oracle is
\* called.
C9_WeatherFailureAborts ==
    (Handled /\ Called("fetch_real_time_weather") /\ FetchFails)
        => /\ ret.http = 500
           /\ ret.body.status = "error"
           /\ "message" \in DOMAIN ret.body
           /\ "lamp_action" \notin DOMAIN ret.body
           /\ ~ Called("read_health_sensor")
           /\ ~ Called("predict")

\* the provider timed out on a well-formed request
C9_Witness ==
    /\ Handled
    /\ "exc" \in DOMAIN provider /\ provider.exc = "Timeout"
    /\ "is_motion_detected" \in DOMAIN client_data
    /\ calls = <<"fetch_real_time_weather">>
    /\ ret.http = 500

====
